---------------------------- MODULE Spec2Model ----------------------------
(***************************************************************************)
(* Model of scripts/openclaw_session_to_tape.py: the normalizer            *)
(* (normalize_openclaw), the redactor (redact, REDACTION_RULES) and the    *)
(* serializer (build_tape_v1).                                             *)
(*                                                                         *)
(* Text is modelled as a sequence of one-character strings, so that the    *)
(* regular expressions, the joins, the strip and the slice of the source   *)
(* are computed character by character.  JSON values of the transcript are *)
(* modelled as tagged records (see the "JSON values" section).             *)
(***************************************************************************)
EXTENDS Integers, Sequences, FiniteSets, TLC

VARIABLES
    corpus,        \* the corpus the transcript is drawn from
    pc,            \* position of main(): "loop", "normalized", "done", "raised"
    session_meta,  \* first record of type "session" of the input, or None
    start_dt,      \* start_dt of normalize_openclaw
    steps,         \* steps of normalize_openclaw
    tool_stack,    \* tool_stack of normalize_openclaw
    nrec,          \* number of message records the loop has handled
    origin,        \* per step: the record number and block number that appended it
    results,       \* per toolResult record handled: what became of it
    last,          \* the message record handled by the last loop iteration
    exc,           \* the exception that ended the run, or "none"
    normalized,    \* the session normalize_openclaw returned, or None
    tape,          \* the document build_tape_v1 returned and its flag, or None
    fn_in,         \* argument of the function under test (function specifications)
    fn_out         \* its results

vars == <<corpus, pc, session_meta, start_dt, steps, tool_stack, nrec, origin, results,
          last, exc, normalized, tape, fn_in, fn_out>>


----------------------------------------------------------------------------
(* Characters and text                                                      *)

UpperSeq == <<"A", "B", "C", "D", "E", "F", "G", "H", "I", "J", "K", "L", "M", "N", "O", "P", "Q", "R", "S", "T", "U", "V", "W", "X", "Y", "Z">>
LowerSeq == <<"a", "b", "c", "d", "e", "f", "g", "h", "i", "j", "k", "l", "m", "n", "o", "p", "q", "r", "s", "t", "u", "v", "w", "x", "y", "z">>
DigitSeq == <<"0", "1", "2", "3", "4", "5", "6", "7", "8", "9">>

Range(s) == {s[i] : i \in 1..Len(s)}

Upper == Range(UpperSeq)
Lower == Range(LowerSeq)
Digit == Range(DigitSeq)
Letter == Upper \cup Lower
Alnum == Letter \cup Digit
WordChar == Alnum \cup {"_"}
SpaceChar == {" ", "\t", "\n", "\r", "\f"}

LowerMap == [c \in Upper |-> LowerSeq[CHOOSE i \in 1..26 : UpperSeq[i] = c]]

\* str.lower() / re.IGNORECASE on one character
LowerChar(c) == IF c \in Upper THEN LowerMap[c] ELSE c

LowerText(s) == [i \in 1..Len(s) |-> LowerChar(s[i])]

\* s[p:p+len(lit)] == lit
HasAt(s, p, lit) ==
    /\ p >= 1
    /\ p + Len(lit) - 1 <= Len(s)
    /\ \A i \in 1..Len(lit) : s[p + i - 1] = lit[i]

\* lit in s
Contains(s, lit) == \E p \in 1..(Len(s) + 1) : HasAt(s, p, lit)

\* re.search(lit, s, re.IGNORECASE) for a literal pattern
ContainsCI(s, lit) == Contains(LowerText(s), LowerText(lit))

RECURSIVE Join(_, _)
\* sep.join(parts)
Join(parts, sep) ==
    IF parts = <<>> THEN <<>>
    ELSE IF Len(parts) = 1 THEN parts[1]
    ELSE parts[1] \o sep \o Join(Tail(parts), sep)

\* [p for p in parts if p]
NonEmptyParts(parts) == SelectSeq(parts, LAMBDA p : p # <<>>)

----------------------------------------------------------------------------
(* Regular expressions of REDACTION_RULES.  A pattern is a sequence of      *)
(* items: a quantified character class, the word boundary \b, or an         *)
(* alternation of literals.  MatchAt is the backtracking matcher of re.     *)

Unbounded == 0 - 1

Cls(set, lo, hi) ==
    <<[kind |-> "cls", set |-> set, neg |-> FALSE, min |-> lo, max |-> hi,
       lazy |-> FALSE, alts |-> <<>>]>>
NotCls(set, lo, hi) ==
    <<[kind |-> "cls", set |-> set, neg |-> TRUE, min |-> lo, max |-> hi,
       lazy |-> FALSE, alts |-> <<>>]>>
AnyLazy ==
    <<[kind |-> "cls", set |-> {}, neg |-> TRUE, min |-> 0, max |-> Unbounded,
       lazy |-> TRUE, alts |-> <<>>]>>
WB == <<[kind |-> "wb", set |-> {}, neg |-> FALSE, min |-> 0, max |-> 0,
         lazy |-> FALSE, alts |-> <<>>]>>
AltCI(alts) ==
    <<[kind |-> "alt", set |-> {}, neg |-> FALSE, min |-> 0, max |-> 0,
       lazy |-> FALSE, alts |-> alts]>>
Lit(s) ==
    <<[kind |-> "lit", set |-> {}, neg |-> FALSE, min |-> 0, max |-> 0,
       lazy |-> FALSE, alts |-> <<s>>]>>

IsWordAt(s, p) == p >= 1 /\ p <= Len(s) /\ s[p] \in WordChar

\* \b before position p
Boundary(s, p) == IsWordAt(s, p - 1) # IsWordAt(s, p)

InClass(item, c) == IF item.neg THEN c \notin item.set ELSE c \in item.set

SetMax(S) == CHOOSE x \in S : \A y \in S : y <= x
SetMin(S) == CHOOSE x \in S : \A y \in S : x <= y

\* the most characters from p on that the class can take
RunLen(item, s, p) ==
    LET rest == Len(s) - p + 1
        lim == IF item.max = Unbounded \/ rest < item.max THEN rest ELSE item.max
        stop == {n \in 0..(lim - 1) : ~InClass(item, s[p + n])}
    IN IF stop = {} THEN lim ELSE SetMin(stop)

RECURSIVE MatchAt(_, _, _, _)
\* the position after the match of items[k..] at p, or 0 when there is none;
\* a quantified class backtracks from its longest run (greedy) or from its
\* shortest (lazy), an alternation tries its literals in order
MatchAt(items, k, s, p) ==
    IF k > Len(items) THEN p
    ELSE LET item == items[k] IN
      CASE item.kind = "wb" ->
             IF Boundary(s, p) THEN MatchAt(items, k + 1, s, p) ELSE 0
        [] item.kind = "lit" ->
             IF HasAt(s, p, item.alts[1])
             THEN MatchAt(items, k + 1, s, p + Len(item.alts[1]))
             ELSE 0
        [] item.kind = "alt" ->
             LET tries == {<<a, MatchAt(items, k + 1, s, p + Len(item.alts[a]))>> :
                             a \in {b \in 1..Len(item.alts) :
                                      /\ p + Len(item.alts[b]) - 1 <= Len(s)
                                      /\ \A i \in 1..Len(item.alts[b]) :
                                            LowerChar(s[p + i - 1]) = item.alts[b][i]}}
                 good == {t \in tries : t[2] # 0}
             IN IF good = {} THEN 0
                ELSE (CHOOSE t \in good : \A u \in good : t[1] <= u[1])[2]
        [] OTHER ->
             LET r == RunLen(item, s, p)
                 tries == {<<n, MatchAt(items, k + 1, s, p + n)>> : n \in item.min..r}
                 good == {t \in tries : t[2] # 0}
             IN IF good = {} THEN 0
                ELSE IF item.lazy
                     THEN (CHOOSE t \in good : \A u \in good : t[1] <= u[1])[2]
                     ELSE (CHOOSE t \in good : \A u \in good : t[1] >= u[1])[2]

RECURSIVE SubFrom(_, _, _, _)
\* pat.sub(rep, s): leftmost matches, left to right, not overlapping
SubFrom(items, rep, s, p) ==
    LET starts == {q \in p..Len(s) : MatchAt(items, 1, s, q) > q} IN
    IF starts = {} THEN SubSeq(s, p, Len(s))
    ELSE LET q == SetMin(starts) IN
         SubSeq(s, p, q - 1) \o rep \o SubFrom(items, rep, s, MatchAt(items, 1, s, q))

Sub(rule, s) == SubFrom(rule.pat, rule.rep, s, 1)

KeyChars == Alnum
TokChars == Alnum \cup {"-"}
B64Chars == Alnum \cup {"/", "+", "="}
UrlChars == Alnum \cup {"-", "_"}
PemName == Upper \cup Digit \cup {" "}

REDACTION_RULES == <<
    [pat |-> WB \o Lit(<<"s", "k", "-">>) \o Cls(KeyChars, 20, Unbounded) \o WB,
     rep |-> <<"s", "k", "-", "R", "E", "D", "A", "C", "T", "E", "D">>],
    [pat |-> WB \o Lit(<<"s", "k", "-", "a", "n", "t", "-">>) \o Cls(TokChars, 20, Unbounded) \o WB,
     rep |-> <<"s", "k", "-", "a", "n", "t", "-", "R", "E", "D", "A", "C", "T", "E", "D">>],
    [pat |-> WB \o Lit(<<"A", "I", "z", "a">>) \o Cls(UrlChars, 35, 35) \o WB,
     rep |-> <<"A", "I", "z", "a", "R", "E", "D", "A", "C", "T", "E", "D">>],
    [pat |-> WB \o Lit(<<"g", "h">>) \o Cls(Range(<<"p", "o", "u", "s", "r">>), 1, 1) \o Lit(<<"_">>)
                \o Cls(KeyChars, 20, Unbounded) \o WB,
     rep |-> <<"g", "h", "_", "R", "E", "D", "A", "C", "T", "E", "D">>],
    [pat |-> WB \o Lit(<<"x", "o", "x">>) \o Cls(Range(<<"b", "a", "p", "r", "s">>), 1, 1) \o Lit(<<"-">>)
                \o Cls(TokChars, 10, Unbounded) \o WB,
     rep |-> <<"x", "o", "x", "-", "R", "E", "D", "A", "C", "T", "E", "D">>],
    [pat |-> WB \o Lit(<<"B", "e", "a", "r", "e", "r">>) \o Cls(SpaceChar, 1, Unbounded)
                \o Cls(Alnum \cup Range(<<"-", ".", "_", "~", "+", "/">>), 1, Unbounded)
                \o Cls({"="}, 0, Unbounded) \o WB,
     rep |-> <<"B", "e", "a", "r", "e", "r", " ", "R", "E", "D", "A", "C", "T", "E", "D">>],
    [pat |-> WB \o Lit(<<"A", "K", "I", "A">>) \o Cls(Digit \cup Upper, 16, 16) \o WB,
     rep |-> <<"A", "K", "I", "A", "R", "E", "D", "A", "C", "T", "E", "D">>],
    [pat |-> WB \o Cls(B64Chars, 40, 40) \o WB,
     rep |-> <<"[", "a", "w", "s", "-", "s", "e", "c", "r", "e", "t", "-", "r", "e", "d", "a", "c", "t", "e", "d", "]">>],
    [pat |-> Lit(<<"-", "-", "-", "-", "-", "B", "E", "G", "I", "N", " ">>) \o Cls(PemName, 1, Unbounded) \o Lit(<<"-", "-", "-", "-", "-">>)
                \o AnyLazy
                \o Lit(<<"-", "-", "-", "-", "-", "E", "N", "D", " ">>) \o Cls(PemName, 1, Unbounded) \o Lit(<<"-", "-", "-", "-", "-">>),
     rep |-> <<"[", "p", "e", "m", "-", "b", "l", "o", "c", "k", "-", "r", "e", "d", "a", "c", "t", "e", "d", "]">>],
    [pat |-> WB \o Lit(<<"e", "y", "J">>) \o Cls(UrlChars, 0, Unbounded)
                \o Lit(<<".", "e", "y", "J">>) \o Cls(UrlChars, 0, Unbounded)
                \o Lit(<<".">>) \o Cls(UrlChars, 1, Unbounded) \o WB,
     rep |-> <<"[", "j", "w", "t", "-", "r", "e", "d", "a", "c", "t", "e", "d", "]">>],
    [pat |-> AltCI(<<<<"p", "o", "s", "t", "g", "r", "e", "s">>, <<"m", "y", "s", "q", "l">>, <<"m", "o", "n", "g", "o", "d", "b">>, <<"r", "e", "d", "i", "s">>>>)
                \o Lit(<<":", "/", "/">>) \o NotCls(SpaceChar \cup {"\"", "'"}, 1, Unbounded),
     rep |-> <<"[", "d", "b", "-", "c", "o", "n", "n", "e", "c", "t", "i", "o", "n", "-", "r", "e", "d", "a", "c", "t", "e", "d", "]">>],
    [pat |-> WB \o Cls(Alnum \cup Range(<<".", "_", "%", "+", "-">>), 1, Unbounded) \o Lit(<<"@">>)
                \o Cls(Alnum \cup Range(<<".", "-">>), 1, Unbounded) \o Lit(<<".">>)
                \o Cls(Letter, 2, Unbounded) \o WB,
     rep |-> <<"[", "e", "m", "a", "i", "l", "-", "r", "e", "d", "a", "c", "t", "e", "d", "]">>],
    [pat |-> WB \o Cls({"+"}, 0, 1) \o Cls(Digit, 1, 1)
                \o Cls(Digit \cup SpaceChar \cup Range(<<"(", ")">> \o <<".", "-">>), 7, Unbounded)
                \o Cls(Digit, 1, 1) \o WB,
     rep |-> <<"[", "p", "h", "o", "n", "e", "-", "r", "e", "d", "a", "c", "t", "e", "d", "]">>],
    [pat |-> WB \o Cls(Digit, 1, 3) \o Lit(<<".">>) \o Cls(Digit, 1, 3) \o Lit(<<".">>)
                \o Cls(Digit, 1, 3) \o Lit(<<".">>) \o Cls(Digit, 1, 3) \o WB,
     rep |-> <<"[", "i", "p", "-", "r", "e", "d", "a", "c", "t", "e", "d", "]">>]
>>

RECURSIVE ApplyRules(_, _, _)
\* for pat, rep in rules[k:]: out = pat.sub(rep, out)
ApplyRules(rules, k, out) ==
    IF k > Len(rules) THEN out
    ELSE ApplyRules(rules, k + 1, Sub(rules[k], out))

redact(text, enabled) ==
    IF ~enabled THEN text ELSE ApplyRules(REDACTION_RULES, 1, text)

----------------------------------------------------------------------------
(* JSON values: what json.loads returns for one line of the transcript.     *)
(* k is the Python type, s the text of a str (or the literal of a number    *)
(* or a bool), xs the items of a list or the <<key, value>> pairs of a dict. *)

None == [k |-> "null", s |-> <<>>, xs |-> <<>>]
JStr(s) == [k |-> "str", s |-> s, xs |-> <<>>]
JNum(digits) == [k |-> "num", s |-> digits, xs |-> <<>>]
JTrue == [k |-> "bool", s |-> <<"t", "r", "u", "e">>, xs |-> <<>>]
JFalse == [k |-> "bool", s |-> <<"f", "a", "l", "s", "e">>, xs |-> <<>>]
JList(xs) == [k |-> "list", s |-> <<>>, xs |-> xs]
JObj(pairs) == [k |-> "obj", s |-> <<>>, xs |-> pairs]

IsNone(v) == v.k = "null"
IsDict(v) == v.k = "obj"
IsList(v) == v.k = "list"
IsStr(v) == v.k = "str"

\* key in d
Has(d, key) == \E i \in 1..Len(d.xs) : d.xs[i][1] = key

\* d.get(key)
Get(d, key) ==
    IF Has(d, key)
    THEN d.xs[CHOOSE i \in 1..Len(d.xs) : d.xs[i][1] = key][2]
    ELSE None

\* bool(v)
Truthy(v) ==
    CASE v.k = "null" -> FALSE
      [] v.k = "str" -> v.s # <<>>
      [] v.k = "bool" -> v.s = <<"t", "r", "u", "e">>
      [] v.k = "num" -> v.s # <<"0">>
      [] OTHER -> v.xs # <<>>

\* a or b
Or(a, b) == IF Truthy(a) THEN a ELSE b

\* v == "lit" for a str literal
IsLit(v, lit) == v.k = "str" /\ v.s = lit

RECURSIVE Cat(_, _, _, _)
\* sep.join(parts[lo..hi]), halving the range
Cat(parts, sep, lo, hi) ==
    IF lo > hi THEN <<>>
    ELSE IF lo = hi THEN parts[lo]
    ELSE LET mid == (lo + hi) \div 2 IN
         Cat(parts, sep, lo, mid) \o sep \o Cat(parts, sep, mid + 1, hi)

JoinAll(parts, sep) == Cat(parts, sep, 1, Len(parts))

Spaces(n) == [i \in 1..n |-> " "]

\* json.dumps escapes of one character (ensure_ascii=False)
EscapeChar(c) ==
    CASE c = "\"" -> <<"\\", "\"">>
      [] c = "\\" -> <<"\\", "\\">>
      [] c = "\n" -> <<"\\", "n">>
      [] c = "\t" -> <<"\\", "t">>
      [] c = "\r" -> <<"\\", "r">>
      [] c = "\f" -> <<"\\", "f">>
      [] OTHER -> <<c>>

Quoted(s) == <<"\"">> \o JoinAll([i \in 1..Len(s) |-> EscapeChar(s[i])], <<>>) \o <<"\"">>

RECURSIVE Dumps(_, _)
\* json.dumps(v, indent=2, ensure_ascii=False), at indentation ind
Dumps(v, ind) ==
    CASE v.k = "null" -> <<"n", "u", "l", "l">>
      [] v.k = "bool" -> v.s
      [] v.k = "num" -> v.s
      [] v.k = "str" -> Quoted(v.s)
      [] v.k = "list" ->
           IF v.xs = <<>> THEN <<"[", "]">>
           ELSE <<"[", "\n">>
                \o JoinAll([i \in 1..Len(v.xs) |->
                              Spaces(ind + 2) \o Dumps(v.xs[i], ind + 2)], <<",", "\n">>)
                \o <<"\n">> \o Spaces(ind) \o <<"]">>
      [] OTHER ->
           IF v.xs = <<>> THEN <<"{", "}">>
           ELSE <<"{", "\n">>
                \o JoinAll([i \in 1..Len(v.xs) |->
                              Spaces(ind + 2) \o Quoted(v.xs[i][1]) \o <<":", " ">>
                              \o Dumps(v.xs[i][2], ind + 2)], <<",", "\n">>)
                \o <<"\n">> \o Spaces(ind) \o <<"}">>

RECURSIVE PyRepr(_)
\* repr(v)
PyRepr(v) ==
    CASE v.k = "null" -> <<"N", "o", "n", "e">>
      [] v.k = "bool" -> IF v.s = <<"t", "r", "u", "e">> THEN <<"T", "r", "u", "e">> ELSE <<"F", "a", "l", "s", "e">>
      [] v.k = "num" -> v.s
      [] v.k = "str" -> <<"'">> \o v.s \o <<"'">>
      [] v.k = "list" ->
           <<"[">> \o JoinAll([i \in 1..Len(v.xs) |-> PyRepr(v.xs[i])], <<",", " ">>) \o <<"]">>
      [] OTHER ->
           <<"{">> \o JoinAll([i \in 1..Len(v.xs) |->
                                 <<"'">> \o v.xs[i][1] \o <<"'", ":", " ">> \o PyRepr(v.xs[i][2])],
                              <<",", " ">>) \o <<"}">>

\* str(v)
PyStr(v) == IF v.k = "str" THEN v.s ELSE PyRepr(v)

\* the character U+2026 of the truncation markers
Ellipsis == "U+2026"

\* safe_json(value, max_len)
safe_json(value, max_len) ==
    IF IsNone(value) THEN <<>>
    ELSE LET s == IF IsStr(value) THEN value.s ELSE Dumps(value, 0) IN
         IF Len(s) > max_len
         THEN SubSeq(s, 1, max_len) \o <<"\n", Ellipsis>> \o <<"(", "t", "r", "u", "n", "c", "a", "t", "e", "d", ")">> \o <<Ellipsis>>
         ELSE s

----------------------------------------------------------------------------
(* Timestamps.  A datetime is its calendar month, its seconds within the    *)
(* month (the UTC offset subtracted when it has one) and whether it carries *)
(* an offset.  FromIso accepts YYYY-MM-DD?HH:MM:SS with an optional +HH:MM  *)
(* or -HH:MM; every other text makes datetime.fromisoformat raise.          *)

NoDt == [k |-> "none", aware |-> FALSE, ym |-> <<>>, sec |-> 0]

DigitVal(c) == (CHOOSE i \in 1..10 : DigitSeq[i] = c) - 1
AllDigits(s, lo, hi) == \A i \in lo..hi : s[i] \in Digit
Num2(s, i) == DigitVal(s[i]) * 10 + DigitVal(s[i + 1])

\* str.replace("Z", "+00:00")
ReplaceZ(s) ==
    JoinAll([i \in 1..Len(s) |-> IF s[i] = "Z" THEN <<"+", "0", "0", ":", "0", "0">> ELSE <<s[i]>>], <<>>)

FromIso(s) ==
    LET n == Len(s)
        shape == /\ n \in {19, 25}
                 /\ AllDigits(s, 1, 4) /\ s[5] = "-" /\ AllDigits(s, 6, 7)
                 /\ s[8] = "-" /\ AllDigits(s, 9, 10)
                 /\ AllDigits(s, 12, 13) /\ s[14] = ":" /\ AllDigits(s, 15, 16)
                 /\ s[17] = ":" /\ AllDigits(s, 18, 19)
                 /\ Num2(s, 6) \in 1..12 /\ Num2(s, 9) \in 1..28
                 /\ Num2(s, 12) < 24 /\ Num2(s, 15) < 60 /\ Num2(s, 18) < 60
                 /\ n = 25 => /\ s[20] \in {"+", "-"}
                              /\ AllDigits(s, 21, 22) /\ s[23] = ":"
                              /\ AllDigits(s, 24, 25)
                              /\ Num2(s, 21) < 24 /\ Num2(s, 24) < 60
        local == ((Num2(s, 9) - 1) * 24 + Num2(s, 12)) * 3600
                    + Num2(s, 15) * 60 + Num2(s, 18)
        off == IF n = 25
               THEN (IF s[20] = "-" THEN 0 - 1 ELSE 1)
                        * (Num2(s, 21) * 3600 + Num2(s, 24) * 60)
               ELSE 0
    IN IF shape
       THEN [k |-> "dt", aware |-> n = 25, ym |-> SubSeq(s, 1, 7), sec |-> local - off]
       ELSE NoDt

\* parse_ts(v)
parse_ts(v) == IF ~Truthy(v) THEN NoDt ELSE FromIso(ReplaceZ(PyStr(v)))

\* datetime.utcnow(): an offset-less reading of the wall clock
UtcNow == FromIso(<<"2", "0", "2", "4", "-", "0", "1", "-", "0", "1", "T", "0", "0", ":", "0", "0", ":", "0", "2">>)

\* a - b raises TypeError when one has an offset and the other has none
CanSubtract(a, b) == a.aware = b.aware

\* (a - b).total_seconds(), within one month
TotalSeconds(a, b) == CASE a.ym = b.ym -> a.sec - b.sec

Max2(a, b) == IF a >= b THEN a ELSE b
----------------------------------------------------------------------------
(* normalize_openclaw                                                       *)

ArgsMaxLen == 6000
BlockMaxLen == 2000
MsgMaxLen == 4000
TitleMax == 64

\* r.get("type") == "message" or r.get("message")
IsMessageRec(r) == IsLit(Get(r, <<"t", "y", "p", "e">>), <<"m", "e", "s", "s", "a", "g", "e">>) \/ Truthy(Get(r, <<"m", "e", "s", "s", "a", "g", "e">>))

\* msg = rec.get("message") or rec
MsgOf(rec) == Or(Get(rec, <<"m", "e", "s", "s", "a", "g", "e">>), rec)

\* role = msg.get("role") or rec.get("role") or "assistant"
RoleOf(rec) ==
    Or(Or(Get(MsgOf(rec), <<"r", "o", "l", "e">>), Get(rec, <<"r", "o", "l", "e">>)), JStr(<<"a", "s", "s", "i", "s", "t", "a", "n", "t">>))

\* content = msg.get("content"), else rec.get("content"), else []
ContentOf(rec) ==
    LET c1 == Get(MsgOf(rec), <<"c", "o", "n", "t", "e", "n", "t">>)
        c2 == Get(rec, <<"c", "o", "n", "t", "e", "n", "t">>)
    IN IF IsList(c1) THEN c1.xs ELSE IF IsList(c2) THEN c2.xs ELSE <<>>

\* start_dt, computed from message_recs[0] and session_meta
StartDt(first, meta) ==
    LET a == parse_ts(Get(first, <<"t", "i", "m", "e", "s", "t", "a", "m", "p">>))
        b == IF Truthy(meta) THEN parse_ts(Get(meta, <<"t", "i", "m", "e", "s", "t", "a", "m", "p">>)) ELSE NoDt
    IN IF a # NoDt THEN a ELSE IF b # NoDt THEN b ELSE UtcNow

\* ts = parse_ts(rec.get("timestamp")) or start_dt
TsOf(rec, start) ==
    LET a == parse_ts(Get(rec, <<"t", "i", "m", "e", "s", "t", "a", "m", "p">>)) IN IF a # NoDt THEN a ELSE start

\* t = max(0.0, (ts - start_dt).total_seconds())
Elapsed(rec, start) == Max2(0, TotalSeconds(TsOf(rec, start), start))

Step(type, t, text, code, tool) ==
    [type |-> type, t |-> t, text |-> text, code |-> code, tool |-> tool]

\* isinstance(c, dict) and c.get("type") == "text" and c.get("text")
IsTextBlock(c) ==
    IsDict(c) /\ IsLit(Get(c, <<"t", "y", "p", "e">>), <<"t", "e", "x", "t">>) /\ Truthy(Get(c, <<"t", "e", "x", "t">>))

\* the argument payload of a toolCall block
ToolCallArgs(c) ==
    LET args == IF Has(c, <<"a", "r", "g", "s">>) THEN Get(c, <<"a", "r", "g", "s">>) ELSE Get(c, <<"a", "r", "g", "u", "m", "e", "n", "t", "s">>)
    IN IF IsNone(args)
       THEN (IF Has(c, <<"p", "a", "r", "a", "m", "s">>) THEN Get(c, <<"p", "a", "r", "a", "m", "s">>) ELSE Get(c, <<"i", "n", "p", "u", "t">>))
       ELSE args

\* code = safe_json(args, 6000) if args is not None else ""
ToolCallCode(c) ==
    LET args == ToolCallArgs(c)
    IN IF ~IsNone(args) THEN safe_json(args, ArgsMaxLen) ELSE <<>>

\* tool_name = str(c.get("name") or c.get("tool") or "tool")
ToolName(c) == PyStr(Or(Or(Get(c, <<"n", "a", "m", "e">>), Get(c, <<"t", "o", "o", "l">>)), JStr(<<"t", "o", "o", "l">>)))

\* whether a content block of an assistant record appends a step
AssistantAppends(c) ==
    /\ IsDict(c)
    /\ \/ /\ IsLit(Get(c, <<"t", "y", "p", "e">>), <<"t", "h", "i", "n", "k", "i", "n", "g">>)
          /\ Truthy(Get(c, <<"t", "e", "x", "t">>)) \/ Truthy(Get(c, <<"t", "h", "i", "n", "k", "i", "n", "g">>))
       \/ IsLit(Get(c, <<"t", "y", "p", "e">>), <<"t", "e", "x", "t">>) /\ Truthy(Get(c, <<"t", "e", "x", "t">>))
       \/ IsLit(Get(c, <<"t", "y", "p", "e">>), <<"t", "o", "o", "l", "C", "a", "l", "l">>)

\* the step a content block of an assistant record appends
AssistantStep(c, t) ==
    CASE IsLit(Get(c, <<"t", "y", "p", "e">>), <<"t", "h", "i", "n", "k", "i", "n", "g">>) ->
           Step("thought", t, PyStr(Or(Get(c, <<"t", "e", "x", "t">>), Get(c, <<"t", "h", "i", "n", "k", "i", "n", "g">>))), <<>>, <<>>)
      [] IsLit(Get(c, <<"t", "y", "p", "e">>), <<"t", "e", "x", "t">>) ->
           Step("result", t, PyStr(Get(c, <<"t", "e", "x", "t">>)), <<>>, <<>>)
      [] OTHER ->
           Step("action", t, ToolName(c), ToolCallCode(c), ToolName(c))

Indices(s) == [i \in 1..Len(s) |-> i]

\* the blocks of a user record that append a step, by position
UserBlocks(content) == SelectSeq(Indices(content), LAMBDA i : IsTextBlock(content[i]))

\* the blocks of an assistant record that append a step, by position
AssistantBlocks(content) ==
    SelectSeq(Indices(content), LAMBDA i : AssistantAppends(content[i]))

\* parts of a toolResult record
ResultParts(rec) ==
    LET content == ContentOf(rec) IN
    IF content # <<>>
    THEN [i \in 1..Len(content) |->
            IF IsTextBlock(content[i])
            THEN PyStr(Get(content[i], <<"t", "e", "x", "t">>))
            ELSE safe_json(content[i], BlockMaxLen)]
    ELSE <<safe_json(MsgOf(rec), MsgMaxLen)>>

\* payload = "\n\n".join([p for p in parts if p])
Payload(rec) == JoinAll(NonEmptyParts(ResultParts(rec)), <<"\n", "\n">>)

\* is_err
IsErr(rec) ==
    \/ Truthy(Get(MsgOf(rec), <<"e", "r", "r", "o", "r">>))
    \/ Truthy(Get(MsgOf(rec), <<"i", "s", "E", "r", "r", "o", "r">>))
    \/ ContainsCI(Payload(rec), <<"e", "r", "r", "o", "r">>)
    \/ ContainsCI(Payload(rec), <<"e", "x", "c", "e", "p", "t", "i", "o", "n">>)
    \/ ContainsCI(Payload(rec), <<"t", "r", "a", "c", "e", "b", "a", "c", "k">>)

\* a merge that drops the call section
MergedCodeNoCall(code, payload, is_err) ==
    (IF is_err THEN <<"e", "r", "r", "o", "r", ":", "\n">> ELSE <<"r", "e", "s", "u", "l", "t", ":", "\n">>) \o payload

\* the code of an action step after a tool result is merged into it
MergedCode(code, payload, is_err) ==
    JoinAll((IF code # <<>> THEN <<<<"c", "a", "l", "l", ":", "\n">> \o code>> ELSE <<>>)
              \o <<(IF is_err THEN <<"e", "r", "r", "o", "r", ":", "\n">> ELSE <<"r", "e", "s", "u", "l", "t", ":", "\n">>) \o payload>>,
            <<"\n", "\n">>)

\* a push of the length after the append instead of the index
PushIndexOneBased(before, j) == Len(before) + j

\* the index tool_stack.append receives for the j-th step a record appends
PushIndex(before, j) == Len(before) + j - 1

\* a pop that takes the oldest pending index (first in, first out)
PopIndexFifo(stack) == IF stack = <<>> THEN 0 - 1 ELSE stack[1]

\* idx = tool_stack.pop()
PopIndex(stack) == IF stack = <<>> THEN 0 - 1 ELSE stack[Len(stack)]

\* an insert at the front instead of an append
ExtendFront(ss, new) == new \o ss

\* steps.append(...), once per step of new
Extend(ss, new) == ss \o new

\* a merge that appends no error step
ErrorStepsNone(is_err, t, payload) == <<>>

\* the error step appended after a merge
ErrorSteps(is_err, t, payload) ==
    IF is_err THEN <<Step("error", t, <<"T", "o", "o", "l", " ", "e", "r", "r", "o", "r">>, payload, <<>>)>> ELSE <<>>

\* whether the popped index passes the bounds-and-type check
CanMerge(idx, ss) == 0 <= idx /\ idx < Len(ss) /\ ss[idx + 1].type = "action"

\* str.strip()
Strip(s) ==
    LET keep == {i \in 1..Len(s) : s[i] \notin SpaceChar} IN
    IF keep = {} THEN <<>> ELSE SubSeq(s, SetMin(keep), SetMax(keep))

\* a title that prefers the session key to the first user text
TitleOfKeyFirst(ss, meta, filename_hint) ==
    LET users == {i \in 1..Len(ss) : ss[i].type = "user" /\ ss[i].text # <<>>} IN
    IF Truthy(meta) /\ Truthy(Or(Get(meta, <<"s", "e", "s", "s", "i", "o", "n", "K", "e", "y">>), Get(meta, <<"k", "e", "y">>)))
    THEN PyStr(Or(Get(meta, <<"s", "e", "s", "s", "i", "o", "n", "K", "e", "y">>), Get(meta, <<"k", "e", "y">>)))
    ELSE IF users # {}
         THEN LET t == Strip(ss[SetMin(users)].text) IN
              IF Len(t) > TitleMax THEN SubSeq(t, 1, TitleMax) \o <<Ellipsis>> ELSE t
         ELSE filename_hint

\* title of the normalized session
TitleOf(ss, meta, filename_hint) ==
    LET users == {i \in 1..Len(ss) : ss[i].type = "user" /\ ss[i].text # <<>>} IN
    IF users # {}
    THEN LET t == Strip(ss[SetMin(users)].text) IN
         IF Len(t) > TitleMax THEN SubSeq(t, 1, TitleMax) \o <<Ellipsis>> ELSE t
    ELSE IF Truthy(meta)
         THEN PyStr(Or(Or(Get(meta, <<"s", "e", "s", "s", "i", "o", "n", "K", "e", "y">>), Get(meta, <<"k", "e", "y">>)), JStr(filename_hint)))
         ELSE filename_hint

\* duration = max([s.t for s in steps], default=0.0)
DurationOf(ss) == IF ss = <<>> THEN 0 ELSE SetMax({ss[i].t : i \in 1..Len(ss)})

----------------------------------------------------------------------------
(* build_tape_v1                                                            *)

\* the character U+0060, which a TLA+ string cannot hold
Backquote == "U+0060"

\* the printable ASCII characters, from U+0020 on
AsciiSeq ==
    <<" ", "!", "\"", "#", "$", "%", "&", "'", "(", ")", "*", "+", ",", "-", ".", "/", "0", "1", "2", "3", "4", "5", "6", "7", "8", "9", ":", ";", "<", "=", ">", "?", "@", "A", "B", "C", "D", "E", "F", "G", "H", "I", "J", "K", "L", "M", "N", "O", "P", "Q", "R", "S", "T", "U", "V", "W", "X", "Y", "Z", "[", "\\", "]", "^", "_">>
    \o <<Backquote>> \o <<"a", "b", "c", "d", "e", "f", "g", "h", "i", "j", "k", "l", "m", "n", "o", "p", "q", "r", "s", "t", "u", "v", "w", "x", "y", "z", "{", "|", "}", "~">>

\* ord(c)
Ord(c) ==
    CASE c = "\t" -> 9
      [] c = "\n" -> 10
      [] c = "\f" -> 12
      [] c = "\r" -> 13
      [] c = Ellipsis -> 8230
      [] OTHER -> 31 + (CHOOSE i \in 1..Len(AsciiSeq) : AsciiSeq[i] = c)

\* a < b for str
StrLess(a, b) ==
    \E i \in 1..(Len(a) + 1) :
        /\ i <= Len(b)
        /\ \A j \in 1..(i - 1) : a[j] = b[j]
        /\ i = Len(a) + 1 \/ Ord(a[i]) < Ord(b[i])

RECURSIVE Sorted(_)
\* sorted(S) for a set of str
Sorted(S) ==
    IF S = {} THEN <<>>
    ELSE LET m == CHOOSE x \in S : \A y \in S \ {x} : StrLess(x, y)
         IN <<m>> \o Sorted(S \ {m})

\* tools_used
ToolsUsed(ss) ==
    Sorted({ss[i].tool : i \in {j \in 1..Len(ss) : ss[j].type = "action" /\ ss[j].tool # <<>>}})

\* str(n) for 0 <= n < 100
Decimal(n) ==
    IF n < 10 THEN <<DigitSeq[n + 1]>>
    ELSE <<DigitSeq[(n \div 10) + 1], DigitSeq[(n % 10) + 1]>>

\* content of an output step
ContentOut(s, redact_enabled) ==
    LET text == redact(s.text, redact_enabled)
        code == redact(s.code, redact_enabled)
        tool == IF s.tool # <<>> THEN redact(s.tool, redact_enabled) ELSE <<>>
    IN CASE s.type \in {"thought", "user"} -> [text |-> text]
         [] s.type = "action" ->
              IF code # <<>>
              THEN [tool |-> IF tool # <<>> THEN tool ELSE <<"t", "o", "o", "l">>,
                    description |-> text, output |-> code]
              ELSE [tool |-> IF tool # <<>> THEN tool ELSE <<"t", "o", "o", "l">>,
                    description |-> text]
         [] s.type = "error" ->
              IF code # <<>>
              THEN [message |-> IF text # <<>> THEN text ELSE <<"E", "r", "r", "o", "r">>,
                    stack_preview |-> code]
              ELSE [message |-> IF text # <<>> THEN text ELSE <<"E", "r", "r", "o", "r">>]
         [] OTHER ->
              IF code # <<>>
              THEN [description |-> IF text # <<>> THEN text ELSE <<"R", "e", "s", "u", "l", "t">>,
                    details |-> code]
              ELSE [description |-> IF text # <<>> THEN text ELSE <<"R", "e", "s", "u", "l", "t">>]

StepsOut(ss, redact_enabled) ==
    [i \in 1..Len(ss) |->
        [id |-> <<"s", "t", "e", "p", "_">> \o Decimal(i),
         type |-> ss[i].type,
         elapsed_seconds |-> ss[i].t,
         content |-> ContentOut(ss[i], redact_enabled)]]

build_tape_v1(session, redact_enabled) ==
    LET steps_out == StepsOut(session.steps, redact_enabled) IN
    [metadata |-> [title |-> redact(session.title, redact_enabled),
                   duration_seconds |-> session.duration_seconds],
     summary |-> [steps |-> Len(steps_out),
                  tools_used |-> ToolsUsed(session.steps),
                  errors |-> Cardinality({i \in 1..Len(steps_out) :
                                            steps_out[i].type = "error"})],
     steps |-> steps_out]

----------------------------------------------------------------------------
(* Inputs.  A transcript is drawn, record by record, from one of three      *)
(* corpora: tool calls and their results, timestamps and record shapes,     *)
(* titles.  session_meta is the first record of type "session" of the       *)
(* transcript (None when it has none).                                      *)

MaxRecs == 3

P(key, val) == <<key, val>>
TextBlock(t) == JObj(<<P(<<"t", "y", "p", "e">>, JStr(<<"t", "e", "x", "t">>)), P(<<"t", "e", "x", "t">>, JStr(t))>>)
ThinkingBlock(t) == JObj(<<P(<<"t", "y", "p", "e">>, JStr(<<"t", "h", "i", "n", "k", "i", "n", "g">>)), P(<<"t", "h", "i", "n", "k", "i", "n", "g">>, JStr(t))>>)
CallBlock(pairs) == JObj(<<P(<<"t", "y", "p", "e">>, JStr(<<"t", "o", "o", "l", "C", "a", "l", "l">>))>> \o pairs)
Message(role, content, extra) ==
    JObj(<<P(<<"r", "o", "l", "e">>, JStr(role)), P(<<"c", "o", "n", "t", "e", "n", "t">>, JList(content))>> \o extra)
\* {"type": "message", ..., "message": {...}}
Nested(head, msg) == JObj(<<P(<<"t", "y", "p", "e">>, JStr(<<"m", "e", "s", "s", "a", "g", "e">>))>> \o head \o <<P(<<"m", "e", "s", "s", "a", "g", "e">>, msg)>>)
\* {"type": "message", "role": ..., "content": [...]}
Flat(head, role, content) ==
    JObj(<<P(<<"t", "y", "p", "e">>, JStr(<<"m", "e", "s", "s", "a", "g", "e">>))>> \o head
           \o <<P(<<"r", "o", "l", "e">>, JStr(role)), P(<<"c", "o", "n", "t", "e", "n", "t">>, JList(content))>>)
At(ts) == <<P(<<"t", "i", "m", "e", "s", "t", "a", "m", "p">>, JStr(ts))>>

LsArgs == JObj(<<P(<<"c", "m", "d">>, JStr(<<"l", "s">>))>>)
CallLs == CallBlock(<<P(<<"n", "a", "m", "e">>, JStr(<<"b", "a", "s", "h">>)), P(<<"a", "r", "g", "s">>, LsArgs)>>)
CallNoArgs == CallBlock(<<P(<<"n", "a", "m", "e">>, JStr(<<"a", "@", "b", ".", "c", "o">>))>>)
CallBearer == CallBlock(<<P(<<"t", "o", "o", "l">>, JStr(<<"b", "a", "s", "h">>)), P(<<"i", "n", "p", "u", "t">>, JStr(<<"B", "e", "a", "r", "e", "r">>))>>)
CallNullArgs ==
    CallBlock(<<P(<<"a", "r", "g", "s">>, None), P(<<"a", "r", "g", "u", "m", "e", "n", "t", "s">>, JStr(<<"-", "v">>))>>)

PairingRecords == {
    Flat(<<>>, <<"u", "s", "e", "r">>, <<TextBlock(<<"h", "i">>)>>),
    Nested(<<>>, Message(<<"a", "s", "s", "i", "s", "t", "a", "n", "t">>, <<CallLs>>, <<>>)),
    Nested(<<>>, Message(<<"a", "s", "s", "i", "s", "t", "a", "n", "t">>, <<CallNoArgs>>, <<>>)),
    Nested(<<>>, Message(<<"a", "s", "s", "i", "s", "t", "a", "n", "t">>, <<CallBearer>>, <<>>)),
    Nested(<<>>, Message(<<"a", "s", "s", "i", "s", "t", "a", "n", "t">>, <<CallLs, CallNoArgs>>, <<>>)),
    Nested(<<>>, Message(<<"t", "o", "o", "l", "R", "e", "s", "u", "l", "t">>, <<TextBlock(<<"o", "k">>)>>, <<>>)),
    Nested(<<>>, Message(<<"t", "o", "o", "l", "R", "e", "s", "u", "l", "t">>, <<TextBlock(<<"E", "x", "c", "e", "p", "t", "i", "o", "n", ":", " ", "x">>)>>, <<>>)),
    Nested(<<>>, Message(<<"t", "o", "o", "l", "R", "e", "s", "u", "l", "t">>, <<TextBlock(<<"o", "k">>)>>, <<P(<<"i", "s", "E", "r", "r", "o", "r">>, JTrue)>>))
}

TimeStamps == {<<"2", "0", "2", "4", "-", "0", "1", "-", "0", "1", "T", "0", "0", ":", "0", "0", ":", "0", "5", "Z">>, <<"2", "0", "2", "4", "-", "0", "1", "-", "0", "1", "T", "0", "0", ":", "0", "0", ":", "0", "1", "Z">>,
               <<"2", "0", "2", "4", "-", "0", "1", "-", "0", "1", "T", "0", "0", ":", "0", "0", ":", "0", "3">>, <<"y", "e", "s", "t", "e", "r", "d", "a", "y">>}

TimeRecords ==
    {Flat(At(ts), <<"u", "s", "e", "r">>, <<TextBlock(<<"h", "i">>), JStr(<<"r", "a", "w">>)>>) : ts \in TimeStamps}
    \cup {
        Nested(At(<<"2", "0", "2", "4", "-", "0", "1", "-", "0", "1", "T", "0", "0", ":", "0", "0", ":", "0", "1", "Z">>),
               Message(<<"a", "s", "s", "i", "s", "t", "a", "n", "t">>, <<ThinkingBlock(<<"h", "m">>), CallNullArgs>>, <<>>)),
        Nested(At(<<"2", "0", "2", "4", "-", "0", "1", "-", "0", "1", "T", "0", "0", ":", "0", "0", ":", "0", "5", "Z">>),
               Message(<<"t", "o", "o", "l", "R", "e", "s", "u", "l", "t">>,
                       <<JObj(<<P(<<"t", "y", "p", "e">>, JStr(<<"i", "m", "a", "g", "e">>))>>), JStr(<<>>)>>, <<>>))
    }

\* records with unusual roles, message fields and content fields
ShapeRecords == {
    Flat(<<>>, <<"u", "s", "e", "r">>, <<TextBlock(<<"h", "i">>)>>),
    Nested(<<>>, Message(<<"t", "o", "o", "l", "R", "e", "s", "u", "l", "t">>, <<>>, <<>>)),
    Flat(<<>>, <<"s", "y", "s", "t", "e", "m">>, <<TextBlock(<<"h", "i">>)>>),
    JObj(<<P(<<"t", "y", "p", "e">>, JStr(<<"m", "e", "s", "s", "a", "g", "e">>)), P(<<"c", "o", "n", "t", "e", "n", "t">>, JList(<<TextBlock(<<"a">>)>>))>>),
    JObj(<<P(<<"t", "y", "p", "e">>, JStr(<<"m", "e", "s", "s", "a", "g", "e">>)), P(<<"r", "o", "l", "e">>, JStr(<<"u", "s", "e", "r">>)),
           P(<<"c", "o", "n", "t", "e", "n", "t">>, JStr(<<"h", "i">>))>>),
    JObj(<<P(<<"m", "e", "s", "s", "a", "g", "e">>, JStr(<<"h", "e", "l", "l", "o">>))>>)
}

PadText == <<" ", " ", "F", "i", "x", " ", "i", "t", " ", "\n">>
LongText == [i \in 1..(TitleMax + 1) |-> "a"]

TitleRecords == {
    Flat(<<>>, <<"u", "s", "e", "r">>, <<TextBlock(<<"F", "i", "x", " ", "t", "h", "e", " ", "l", "o", "g", "i", "n", " ", "b", "u", "g">>)>>),
    Flat(<<>>, <<"u", "s", "e", "r">>, <<TextBlock(PadText)>>),
    Flat(<<>>, <<"u", "s", "e", "r">>, <<TextBlock(LongText)>>),
    Flat(<<>>, <<"u", "s", "e", "r">>, <<TextBlock(<<" ">>)>>),
    Flat(<<>>, <<"u", "s", "e", "r">>, <<TextBlock(<<>>)>>),
    Flat(<<>>, <<"a", "s", "s", "i", "s", "t", "a", "n", "t">>, <<TextBlock(<<"H", "e", "l", "l", "o">>)>>)
}

\* records the filter of message_recs drops
DroppedRecords == {
    JObj(<<P(<<"t", "y", "p", "e">>, JStr(<<"c", "u", "s", "t", "o", "m">>))>>),
    JObj(<<P(<<"t", "y", "p", "e">>, JStr(<<"s", "e", "s", "s", "i", "o", "n">>)), P(<<"s", "e", "s", "s", "i", "o", "n", "K", "e", "y">>, JStr(<<"z", "z", "z">>))>>),
    JObj(<<P(<<"r", "o", "l", "e">>, JStr(<<"u", "s", "e", "r">>)), P(<<"m", "e", "s", "s", "a", "g", "e">>, JObj(<<>>))>>)
}

Corpora == {"pairing", "time", "shape", "title"}

RecordsOf(c) ==
    DroppedRecords \cup
    CASE c = "pairing" -> PairingRecords
      [] c = "time" -> TimeRecords
      [] c = "shape" -> ShapeRecords
      [] OTHER -> TitleRecords

SessionRec(pairs) == JObj(<<P(<<"t", "y", "p", "e">>, JStr(<<"s", "e", "s", "s", "i", "o", "n">>))>> \o pairs)

SessionMetasOf(c) ==
    CASE c \in {"pairing", "shape"} -> {None}
      [] c = "time" -> {None, SessionRec(At(<<"2", "0", "2", "4", "-", "0", "1", "-", "0", "1", "T", "0", "0", ":", "0", "0", ":", "0", "0", "Z">>))}
      [] OTHER -> {None,
                   SessionRec(<<P(<<"s", "e", "s", "s", "i", "o", "n", "K", "e", "y">>, JStr(<<"a", "b", "c", "1", "2", "3">>))>>),
                   SessionRec(<<P(<<"k", "e", "y">>, JStr(<<"k", "9">>))>>),
                   SessionRec(At(<<"2", "0", "2", "4", "-", "0", "1", "-", "0", "1", "T", "0", "0", ":", "0", "0", ":", "0", "0", "Z">>))}

Filenames == {<<"s", ".", "j", "s", "o", "n", "l">>}

\* the values of --no-redact the corpus is converted with
RedactFlagsOf(c) == IF c \in {"time", "shape"} THEN {FALSE} ELSE {TRUE, FALSE}

----------------------------------------------------------------------------
(* The run of main(): parse_jsonl hands the records over, normalize_openclaw *)
(* handles them in order, build_tape_v1 serializes.                         *)

Init ==
    /\ corpus \in Corpora
    /\ session_meta \in SessionMetasOf(corpus)
    /\ pc = "loop"
    /\ start_dt = NoDt
    /\ steps = <<>>
    /\ tool_stack = <<>>
    /\ nrec = 0
    /\ origin = <<>>
    /\ results = {}
    /\ last = None
    /\ exc = "none"
    /\ normalized = None
    /\ tape = None
    /\ fn_in = None
    /\ fn_out = <<>>

\* start_dt as of the record being handled
StartFor(rec) == IF nrec = 0 THEN StartDt(rec, session_meta) ELSE start_dt

\* the guard every iteration of the loop shares
Reads(rec) ==
    /\ pc = "loop"
    /\ nrec < MaxRecs
    /\ rec \in RecordsOf(corpus)
    /\ IsMessageRec(rec)

Handles(rec, role) ==
    /\ Reads(rec)
    /\ IsDict(MsgOf(rec))
    /\ CanSubtract(TsOf(rec, StartFor(rec)), StartFor(rec))
    /\ IF role = "other"
       THEN RoleOf(rec) \notin {JStr(<<"u", "s", "e", "r">>), JStr(<<"a", "s", "s", "i", "s", "t", "a", "n", "t">>), JStr(<<"t", "o", "o", "l", "R", "e", "s", "u", "l", "t">>)}
       ELSE RoleOf(rec) = JStr(IF role = "user" THEN <<"u", "s", "e", "r">>
                               ELSE IF role = "assistant" THEN <<"a", "s", "s", "i", "s", "t", "a", "n", "t">>
                               ELSE <<"t", "o", "o", "l", "R", "e", "s", "u", "l", "t">>)

Handled(rec) ==
    /\ start_dt' = StartFor(rec)
    /\ nrec' = nrec + 1
    /\ last' = rec
    /\ UNCHANGED <<pc, corpus, session_meta, exc, normalized, tape, fn_in, fn_out>>

\* a record that is neither of type "message" nor carries a message
DropRecord ==
    /\ pc = "loop"
    /\ \E rec \in RecordsOf(corpus) :
          /\ ~IsMessageRec(rec)
          /\ IsLit(Get(rec, <<"t", "y", "p", "e">>), <<"s", "e", "s", "s", "i", "o", "n">>) => session_meta # None
    /\ UNCHANGED vars

\* if role == "user"
HandleUser ==
    \E rec \in RecordsOf(corpus) :
      /\ Handles(rec, "user")
      /\ LET content == ContentOf(rec)
             t == Elapsed(rec, StartFor(rec))
             blocks == UserBlocks(content)
         IN /\ steps' = Extend(steps, [j \in 1..Len(blocks) |->
                                    Step("user", t, PyStr(Get(content[blocks[j]], <<"t", "e", "x", "t">>)),
                                         <<>>, <<>>)])
            /\ origin' = origin \o [j \in 1..Len(blocks) |->
                                      [rec |-> nrec + 1, blk |-> blocks[j]]]
      /\ UNCHANGED <<tool_stack, results>>
      /\ Handled(rec)

\* if role == "assistant"
HandleAssistant ==
    \E rec \in RecordsOf(corpus) :
      /\ Handles(rec, "assistant")
      /\ LET content == ContentOf(rec)
             t == Elapsed(rec, StartFor(rec))
             blocks == AssistantBlocks(content)
             new == [j \in 1..Len(blocks) |-> AssistantStep(content[blocks[j]], t)]
             calls == SelectSeq(Indices(new), LAMBDA j : new[j].type = "action")
         IN /\ steps' = Extend(steps, new)
            /\ tool_stack' = tool_stack \o [n \in 1..Len(calls) |->
                                              PushIndex(steps, calls[n])]
            /\ origin' = origin \o [j \in 1..Len(blocks) |->
                                      [rec |-> nrec + 1, blk |-> blocks[j]]]
      /\ UNCHANGED results
      /\ Handled(rec)

\* if role == "toolResult"
HandleToolResult ==
    \E rec \in RecordsOf(corpus) :
      /\ Handles(rec, "toolResult")
      /\ LET t == Elapsed(rec, StartFor(rec))
             payload == Payload(rec)
             is_err == IsErr(rec)
             idx == PopIndex(tool_stack)
             standalone == Step(IF is_err THEN "error" ELSE "result", t,
                                IF is_err THEN <<"T", "o", "o", "l", " ", "e", "r", "r", "o", "r">> ELSE <<"T", "o", "o", "l", " ", "r", "e", "s", "u", "l", "t">>,
                                payload, <<>>)
             note == [by |-> nrec + 1, err |-> is_err, pending |-> Len(tool_stack)]
         IN IF tool_stack # <<>> /\ CanMerge(idx, steps)
            THEN /\ tool_stack' = SubSeq(tool_stack, 1, Len(tool_stack) - 1)
                 /\ steps' = Extend([steps EXCEPT ![idx + 1].code =
                                        MergedCode(steps[idx + 1].code, payload, is_err)],
                                    ErrorSteps(is_err, t, payload))
                 /\ origin' = origin \o (IF is_err
                                         THEN <<[rec |-> nrec + 1, blk |-> 0]>>
                                         ELSE <<>>)
                 /\ results' = results \cup
                                 {note @@ [idx |-> idx, code |-> steps[idx + 1].code]}
            ELSE /\ tool_stack' = SubSeq(tool_stack, 1, Len(tool_stack) - 1)
                 /\ steps' = Extend(steps, <<standalone>>)
                 /\ origin' = Append(origin, [rec |-> nrec + 1, blk |-> 0])
                 /\ results' = results \cup {note @@ [idx |-> 0 - 1, code |-> <<>>]}
      /\ Handled(rec)

\* a role none of the three branches takes: the record appends nothing
HandleOtherRole ==
    \E rec \in RecordsOf(corpus) :
      /\ Handles(rec, "other")
      /\ UNCHANGED <<steps, tool_stack, origin, results>>
      /\ Handled(rec)

Raise(name) ==
    /\ pc' = "raised"
    /\ exc' = name
    /\ UNCHANGED <<corpus, session_meta, start_dt, steps, tool_stack, nrec, origin,
                   results, last, normalized, tape, fn_in, fn_out>>

\* if not message_recs: raise ValueError
RaiseNoMessages ==
    /\ pc = "loop"
    /\ nrec = 0
    /\ Raise("ValueError")

\* msg.get(...) on a message that is no dict
RaiseNotADict ==
    /\ \E rec \in RecordsOf(corpus) : Reads(rec) /\ ~IsDict(MsgOf(rec))
    /\ Raise("AttributeError")

\* ts - start_dt with one offset-bearing and one offset-less datetime
RaiseMixedOffsets ==
    /\ \E rec \in RecordsOf(corpus) :
          /\ Reads(rec)
          /\ IsDict(MsgOf(rec))
          /\ ~CanSubtract(TsOf(rec, StartFor(rec)), StartFor(rec))
    /\ Raise("TypeError")

\* the end of the loop: title, duration and the returned session
Return ==
    /\ pc = "loop"
    /\ nrec >= 1
    /\ \E filename_hint \in Filenames :
          normalized' = [title |-> TitleOf(steps, session_meta, filename_hint),
                         duration_seconds |-> DurationOf(steps),
                         steps |-> steps]
    /\ pc' = "normalized"
    /\ UNCHANGED <<corpus, session_meta, start_dt, steps, tool_stack, nrec, origin,
                   results, last, exc, tape, fn_in, fn_out>>

\* tape = build_tape_v1(normalized, redact_enabled=(not args.no_redact))
Build ==
    /\ pc = "normalized"
    /\ \E redact_enabled \in RedactFlagsOf(corpus) :
          tape' = [redact_enabled |-> redact_enabled,
                   doc |-> build_tape_v1(normalized, redact_enabled)]
    /\ pc' = "done"
    /\ UNCHANGED <<corpus, session_meta, start_dt, steps, tool_stack, nrec, origin,
                   results, last, exc, normalized, fn_in, fn_out>>

Next ==
    \/ DropRecord
    \/ HandleUser
    \/ HandleAssistant
    \/ HandleToolResult
    \/ HandleOtherRole
    \/ RaiseNoMessages
    \/ RaiseNotADict
    \/ RaiseMixedOffsets
    \/ Return
    \/ Build

Spec == Init /\ [][Next]_vars

----------------------------------------------------------------------------
(* The argument payload of a toolCall block, over every way the four keys   *)
(* can be absent, null or set.                                              *)

ArgKeys == <<<<"a", "r", "g", "s">>, <<"a", "r", "g", "u", "m", "e", "n", "t", "s">>, <<"p", "a", "r", "a", "m", "s">>, <<"i", "n", "p", "u", "t">>>>
ArgValues == <<JStr(<<"a", "1">>), JObj(<<P(<<"q">>, JNum(<<"2">>))>>), JStr(<<"p", "3">>), JNum(<<"4">>)>>

\* the toolCall block whose k-th key is absent (0), null (1) or set (2)
CallWith(shape) ==
    CallBlock(<<P(<<"n", "a", "m", "e">>, JStr(<<"b", "a", "s", "h">>))>>
              \o JoinAll([k \in 1..4 |->
                            CASE shape[k] = 0 -> <<>>
                              [] shape[k] = 1 -> <<P(ArgKeys[k], None)>>
                              [] OTHER -> <<P(ArgKeys[k], ArgValues[k])>>], <<>>))

ToolCallBlocks == {CallWith(shape) : shape \in [1..4 -> {0, 1, 2}]}

Idle ==
    /\ corpus = "none"
    /\ session_meta = None
    /\ pc = "function"
    /\ start_dt = NoDt
    /\ steps = <<>>
    /\ tool_stack = <<>>
    /\ nrec = 0
    /\ origin = <<>>
    /\ results = {}
    /\ last = None
    /\ exc = "none"
    /\ normalized = None
    /\ tape = None

IdleVars == <<corpus, session_meta, pc, start_dt, steps, tool_stack, nrec, origin,
              results, last, exc, normalized, tape>>

InitArgs == Idle /\ fn_in \in ToolCallBlocks /\ fn_out = <<>>

\* the action step the assistant branch appends for the block
AppendCall ==
    /\ fn_out = <<>>
    /\ fn_out' = <<AssistantStep(fn_in, 0)>>
    /\ UNCHANGED <<fn_in, IdleVars>>

NextArgs == AppendCall

SpecArgs == InitArgs /\ [][NextArgs]_vars

----------------------------------------------------------------------------
(* redact, applied once and again, over texts made of a few fragments.      *)

MaxFrags == 5

Fragments == {<<"B", "e", "a", "r", "e", "r">>, <<" ">>, <<"a", "b">>, <<"=">>, <<"a", "@", "b", ".", "c", "o">>}

RECURSIVE TextsOf(_)
\* the texts of at most n fragments
TextsOf(n) ==
    IF n = 0 THEN {<<>>}
    ELSE LET shorter == TextsOf(n - 1) IN
         shorter \cup {t \o f : t \in shorter, f \in Fragments}

InitRedact == Idle /\ fn_in \in TextsOf(MaxFrags) /\ fn_out = <<>>

\* redact(text, True)
RedactOnce ==
    /\ fn_out = <<>>
    /\ fn_out' = <<redact(fn_in, TRUE)>>
    /\ UNCHANGED <<fn_in, IdleVars>>

\* redact(redact(text, True), True)
RedactAgain ==
    /\ Len(fn_out) = 1
    /\ fn_out' = Append(fn_out, redact(fn_out[1], TRUE))
    /\ UNCHANGED <<fn_in, IdleVars>>

NextRedact == RedactOnce \/ RedactAgain

SpecRedact == InitRedact /\ [][NextRedact]_vars

----------------------------------------------------------------------------
(* Properties                                                               *)

ToolResultRole == JStr(<<"t", "o", "o", "l", "R", "e", "s", "u", "l", "t">>)

\* the indices (as tool_stack holds them) of the action steps merged so far
MergedIdx == {r.idx : r \in {x \in results : x.idx >= 0}}

\* the positions of the action steps that have not received a result
Pending == {i \in 1..Len(steps) : steps[i].type = "action" /\ (i - 1) \notin MergedIdx}

\* a loop iteration that handled a toolResult record
HandledToolResult == pc = "loop" /\ nrec' = nrec + 1 /\ RoleOf(last') = ToolResultRole

\* a merged result whose record came right after the record of its toolCall
Direct(r) == r.idx >= 0 /\ ~r.err /\ r.by = origin[r.idx + 1].rec + 1

NoErrorStepOf(r) ==
    ~\E j \in 1..Len(steps) : steps[j].type = "error" /\ origin[j].rec = r.by

OneStepFor(r) == Cardinality({j \in 1..Len(steps) : origin[j] = origin[r.idx + 1]}) = 1

\* C1 as stated: a toolCall immediately followed by an error-free toolResult
\* gives exactly one action step, whose output field holds both a call: and a
\* result: section, and no error step, whatever the shape of the toolCall.
PairingCorrectness ==
    pc = "done" =>
      \A r \in results : Direct(r) =>
        LET out == tape.doc.steps[r.idx + 1] IN
        /\ out.type = "action"
        /\ OneStepFor(r)
        /\ "output" \in DOMAIN out.content
        /\ Contains(out.content.output, <<"c", "a", "l", "l", ":">>)
        /\ Contains(out.content.output, <<"r", "e", "s", "u", "l", "t", ":">>)
        /\ NoErrorStepOf(r)

\* C1 amended: exactly one action step and no error step; the step's code is
\* "result:\n" and the payload, preceded by "call:\n", the argument text and a
\* blank line exactly when the resolved argument text is not empty; the output
\* field is that code after redaction.
PairingCorrectnessAmended ==
    pc = "done" =>
      \A r \in results : Direct(r) =>
        LET out == tape.doc.steps[r.idx + 1]
            code == steps[r.idx + 1].code
        IN
        /\ out.type = "action"
        /\ OneStepFor(r)
        /\ NoErrorStepOf(r)
        /\ IF r.code # <<>>
           THEN HasAt(code, 1, <<"c", "a", "l", "l", ":", "\n">> \o r.code \o <<"\n", "\n", "r", "e", "s", "u", "l", "t", ":", "\n">>)
           ELSE HasAt(code, 1, <<"r", "e", "s", "u", "l", "t", ":", "\n">>)
        /\ "output" \in DOMAIN out.content
        /\ out.content.output = redact(code, tape.redact_enabled)

PairingWitness ==
    /\ pc = "done"
    /\ tape.redact_enabled
    /\ \E r \in results :
          /\ Direct(r)
          /\ r.code # <<>>
          /\ Contains(tape.doc.steps[r.idx + 1].content.output, <<"c", "a", "l", "l", ":">>)
          /\ Contains(tape.doc.steps[r.idx + 1].content.output, <<"r", "e", "s", "u", "l", "t", ":">>)

EndsWith(s, tail) ==
    /\ Len(s) >= Len(tail)
    /\ SubSeq(s, Len(s) - Len(tail) + 1, Len(s)) = tail

LifoStep ==
    HandledToolResult =>
      LET payload == Payload(last')
          is_err == IsErr(last')
          section == (IF is_err THEN <<"e", "r", "r", "o", "r", ":", "\n">> ELSE <<"r", "e", "s", "u", "l", "t", ":", "\n">>) \o payload
      IN
      IF Pending # {}
      THEN LET i == SetMax(Pending) IN
           /\ Len(steps') >= Len(steps)
           /\ steps'[i].code # steps[i].code
           /\ EndsWith(steps'[i].code, section)
           /\ \A j \in (1..Len(steps)) \ {i} : steps'[j] = steps[j]
           /\ \A j \in (Len(steps) + 1)..Len(steps') : steps'[j].type # "result"
      ELSE /\ Len(steps') = Len(steps) + 1
           /\ SubSeq(steps', 1, Len(steps)) = steps
           /\ steps'[Len(steps')].type = (IF is_err THEN "error" ELSE "result")
           /\ steps'[Len(steps')].code = payload

\* C2: a toolResult record is merged into the code of the latest action step
\* that has not received a result and adds no result step; with no action
\* pending it becomes a standalone result or error step.
LifoPairing == [][LifoStep]_vars

LifoWitness ==
    /\ \E r \in results : r.idx < 0
    /\ \E r \in results :
          /\ r.idx >= 0
          /\ \E i \in 1..r.idx : i \in Pending

\* C3: every toolResult record classified as an error has an error step of
\* its own, standalone with no action pending and appended after the merged
\* action otherwise; summary.errors counts them.
ErrorSurfacing ==
    /\ \A r \in results : r.err =>
          \E j \in 1..Len(steps) :
              /\ steps[j].type = "error"
              /\ origin[j] = [rec |-> r.by, blk |-> 0]
              /\ r.idx >= 0 => steps[r.idx + 1].type = "action" /\ j > r.idx + 1
    /\ pc = "done" =>
          /\ tape.doc.summary.errors >= Cardinality({r \in results : r.err})
          /\ \A j \in 1..Len(steps) :
                steps[j].type = "error" => tape.doc.steps[j].type = "error"

ErrorSurfacingWitness ==
    /\ pc = "done"
    /\ \E r \in results : r.err /\ r.idx >= 0
    /\ \E r \in results : r.err /\ r.idx < 0
    /\ Contains(Payload(last), <<"E", "x", "c", "e", "p", "t", "i", "o", "n">>)
    /\ tape.doc.summary.errors >= 2

ActionSteps == {i \in 1..Len(steps) : steps[i].type = "action" /\ steps[i].tool # <<>>}

\* C4: with redaction enabled, summary.tools_used is the sorted set of the
\* redacted tool names of the action steps, and each step's content.tool is
\* the redacted name.
ToolsUsedRedacted ==
    (pc = "done" /\ tape.redact_enabled) =>
      /\ tape.doc.summary.tools_used
            = Sorted({redact(steps[i].tool, TRUE) : i \in ActionSteps})
      /\ \A i \in ActionSteps :
            tape.doc.steps[i].content.tool = redact(steps[i].tool, TRUE)

\* C5: normalize raises exactly when no record is a message record, and
\* returns a session for every input with at least one.
NormalizeFailsOnlyWithoutMessages ==
    /\ pc = "raised" => nrec = 0 /\ exc = "ValueError"
    /\ pc \in {"normalized", "done"} => nrec >= 1

\* the value of the first of args, arguments, params, input that is not null
FirstNonNull(c) ==
    LET set == {k \in 1..4 : ~IsNone(Get(c, ArgKeys[k]))} IN
    IF set = {} THEN None ELSE Get(c, ArgKeys[SetMin(set)])

\* C6: the argument payload of an action step is the first non-null of args,
\* arguments, params, input, and empty only when all four are absent or null.
FirstNonNullArgs ==
    fn_out # <<>> =>
      fn_out[1].code = safe_json(FirstNonNull(fn_in), ArgsMaxLen)

\* C7: redacting redacted text changes nothing.
IdempotentRedaction == Len(fn_out) = 2 => fn_out[2] = fn_out[1]

\* the text a content block gives its step
BlockTexts(c) ==
    IF IsDict(c)
    THEN {PyStr(Get(c, <<"t", "e", "x", "t">>)), PyStr(Get(c, <<"t", "h", "i", "n", "k", "i", "n", "g">>)), ToolName(c)}
    ELSE {}

OrderInv ==
    /\ Len(origin) = Len(steps)
    /\ \A i, j \in 1..Len(steps) : i < j =>
          \/ origin[i].rec < origin[j].rec
          \/ origin[i].rec = origin[j].rec /\ origin[i].blk < origin[j].blk
    /\ pc = "done" =>
          /\ Len(tape.doc.steps) = Len(steps)
          /\ \A i \in 1..Len(steps) :
                /\ tape.doc.steps[i].type = steps[i].type
                /\ tape.doc.steps[i].elapsed_seconds = steps[i].t
                /\ tape.doc.steps[i].id = <<"s", "t", "e", "p", "_">> \o Decimal(i)

OrderStep ==
    /\ Len(steps') >= Len(steps)
    /\ \A i \in 1..Len(steps) :
          /\ steps'[i] = [steps[i] EXCEPT !.code = steps'[i].code]
          /\ steps'[i].code # steps[i].code =>
                steps[i].type = "action" /\ HandledToolResult
    /\ \A j \in (Len(steps) + 1)..Len(steps') :
          /\ origin'[j].rec = nrec'
          /\ steps'[j].t = Elapsed(last', start_dt')
          /\ origin'[j].blk > 0 =>
                steps'[j].text \in BlockTexts(ContentOf(last')[origin'[j].blk])

\* C8: steps keep the order of the records, and of the blocks within a record,
\* that appended them; steps are only appended, a merge changes only the code
\* of a step, and the output steps keep positions whatever the timestamps.
OrderPreservation == []OrderInv /\ [][OrderStep]_vars

OrderWitness ==
    /\ pc = "done"
    /\ \E i, j \in 1..Len(steps) : i < j /\ steps[i].t > steps[j].t
    /\ \E i, j \in 1..Len(steps) : i < j /\ origin[i].rec = origin[j].rec

UserSteps == {i \in 1..Len(steps) : steps[i].type = "user"}

Truncated(t) ==
    IF Len(t) > TitleMax THEN SubSeq(t, 1, TitleMax) \o <<Ellipsis>> ELSE t

SessionKey(meta) == Or(Get(meta, <<"s", "e", "s", "s", "i", "o", "n", "K", "e", "y">>), Get(meta, <<"k", "e", "y">>))

FirstUserText == IF UserSteps = {} THEN <<>> ELSE steps[SetMin(UserSteps)].text

\* the title by the chain: the first user text (given as shown), session key,
\* filename
ChainTitle(shown, filename) ==
    IF UserSteps # {} THEN Truncated(shown)
    ELSE IF Truthy(session_meta) /\ Truthy(SessionKey(session_meta))
         THEN PyStr(SessionKey(session_meta))
         ELSE filename

\* C9 as stated: the title is the first user step's text cut to 64 characters
\* and an ellipsis, else the session key, else the filename.
TitleFallbackChain ==
    pc = "normalized" =>
      \E filename \in Filenames : normalized.title = ChainTitle(FirstUserText, filename)

\* C9 amended: the first user step's text is stripped of leading and trailing
\* whitespace before it is cut (so it can be empty); the rest as stated.
TitleFallbackChainAmended ==
    pc = "normalized" =>
      \E filename \in Filenames : normalized.title = ChainTitle(Strip(FirstUserText), filename)

TitleWitness ==
    /\ pc = "normalized"
    /\ UserSteps # {}
    /\ FirstUserText[1] \in SpaceChar
    /\ normalized.title # <<>>
    /\ normalized.title = Strip(FirstUserText)

\* C10: the pending stack holds strictly increasing indices of action steps
\* that have no result yet, and holds all of them (it is never cleared); an
\* action step is merged at most once, merges never outnumber toolCalls, and
\* a toolResult is standalone only when the stack was empty.
PendingStackInvariant ==
    /\ \A k \in 1..Len(tool_stack) :
          /\ 0 <= tool_stack[k] /\ tool_stack[k] < Len(steps)
          /\ steps[tool_stack[k] + 1].type = "action"
          /\ tool_stack[k] \notin MergedIdx
    /\ \A k \in 1..(Len(tool_stack) - 1) : tool_stack[k] < tool_stack[k + 1]
    /\ {tool_stack[k] + 1 : k \in 1..Len(tool_stack)} = Pending
    /\ \A r1, r2 \in results : (r1.idx >= 0 /\ r1.idx = r2.idx) => r1 = r2
    /\ Cardinality(MergedIdx)
          <= Cardinality({i \in 1..Len(steps) : steps[i].type = "action"})
    /\ \A r \in results : r.idx < 0 <=> r.pending = 0

PendingStackWitness ==
    /\ tool_stack # <<>>
    /\ \E r \in results : r.idx >= 0 /\ r.by > origin[r.idx + 1].rec + 1

=============================================================================
